---- MODULE Spec2Model ----
(***************************************************************************)
(* Model of PDFTextAnalyzer (src/pageRank.py): the tokenizer, the          *)
(* term-frequency calculator, the SQLite store (tables documents and       *)
(* term_frequency), the ingestion orchestrator process_pdf, the IDF        *)
(* calculator and the TF-IDF ranker search.                                *)
(*                                                                         *)
(* A text is a sequence of one-character strings.  A term is a sequence of *)
(* lower-case letters.  A float that the program computes as k / L is kept *)
(* as the pair <<k, L>>; a natural logarithm is kept in micro-units.       *)
(***************************************************************************)
EXTENDS Integers, Sequences, FiniteSets, TLC

VARIABLES
    documents,        \* committed rows of table documents
    term_frequency,   \* committed rows of table term_frequency
    sqlite_sequence,  \* committed AUTOINCREMENT counter of table documents
    op,               \* the public operation that just ran ("none": at the menu)
    args,             \* its inputs
    ret,              \* its return value
    raised,           \* TRUE when it ended with an exception leaving the method
    steps,            \* the steps it executed, in order
    tokIn,            \* tokenizer harness: the input text
    tokOut,           \* tokenizer harness: preprocess_text(tokIn)
    tokAgain,         \* tokenizer harness: preprocess_text(join(tokOut))
    tokPc             \* tokenizer harness: position

vars == <<documents, term_frequency, sqlite_sequence, op, args, ret, raised,
          steps, tokIn, tokOut, tokAgain, tokPc>>

dbVars == <<documents, term_frequency, sqlite_sequence>>
callVars == <<op, args, ret, raised, steps>>
tokVars == <<tokIn, tokOut, tokAgain, tokPc>>

(***************************************************************************)
(* Bounds                                                                  *)
(***************************************************************************)
\* largest value the AUTOINCREMENT counter of documents may reach
MaxSeq == 3
\* longest text the tokenizer harness feeds to preprocess_text
MaxLen == 5
\* largest top_n passed to search
MaxTopN == 2

(***************************************************************************)
(* Characters                                                              *)
(***************************************************************************)
LowerCase == <<"a", "b", "c", "d", "e", "f", "g", "h", "i", "j", "k", "l", "m",
               "n", "o", "p", "q", "r", "s", "t", "u", "v", "w", "x", "y", "z">>
UpperCase == <<"A", "B", "C", "D", "E", "F", "G", "H", "I", "J", "K", "L", "M",
               "N", "O", "P", "Q", "R", "S", "T", "U", "V", "W", "X", "Y", "Z">>

LowerLetters == {LowerCase[i] : i \in DOMAIN LowerCase}
UpperLetters == {UpperCase[i] : i \in DOMAIN UpperCase}

\* the characters the regular expression class \s matches
Whitespace == {" ", "\n", "\t"}

\* str.lower() on one character
lower(c) ==
    IF c \in UpperLetters
    THEN LowerCase[CHOOSE i \in DOMAIN UpperCase : UpperCase[i] = c]
    ELSE c

\* str.lower() on a text
LowerText(text) == [i \in DOMAIN text |-> lower(text[i])]

\* re.sub(r'[^a-zA-Z\s]', '', text)
StripNonLetters(text) ==
    SelectSeq(text, LAMBDA c : c \in LowerLetters \cup UpperLetters \cup Whitespace)

RECURSIVE SplitAcc(_, _, _)
SplitAcc(text, cur, acc) ==
    IF text = <<>>
    THEN IF cur = <<>> THEN acc ELSE Append(acc, cur)
    ELSE IF Head(text) \in Whitespace
         THEN SplitAcc(Tail(text), <<>>,
                       IF cur = <<>> THEN acc ELSE Append(acc, cur))
         ELSE SplitAcc(Tail(text), Append(cur, Head(text)), acc)

\* str.split(): the maximal runs of non-whitespace characters, in order
Split(text) == SplitAcc(text, <<>>, <<>>)

stop_words == {
    <<"t","h","e">>, <<"a">>, <<"a","n">>, <<"a","n","d">>, <<"o","r">>,
    <<"b","u","t">>, <<"i","n">>, <<"o","n">>, <<"a","t">>, <<"t","o">>,
    <<"f","o","r">>, <<"o","f">>, <<"w","i","t","h">>, <<"b","y">>,
    <<"i","s">>, <<"a","r","e">>, <<"w","a","s">>, <<"w","e","r","e">>,
    <<"b","e">>, <<"b","e","e","n">>, <<"h","a","v","e">>, <<"h","a","s">>,
    <<"h","a","d">>, <<"d","o">>, <<"d","o","e","s">>, <<"d","i","d">>,
    <<"w","i","l","l">>, <<"w","o","u","l","d">>, <<"c","o","u","l","d">>,
    <<"s","h","o","u","l","d">>, <<"m","a","y">>, <<"m","i","g","h","t">>,
    <<"m","u","s","t">>, <<"t","h","i","s">>, <<"t","h","a","t">>,
    <<"t","h","e","s","e">>, <<"t","h","o","s","e">>, <<"i">>,
    <<"y","o","u">>, <<"h","e">>, <<"s","h","e">>, <<"i","t">>, <<"w","e">>,
    <<"t","h","e","y">>, <<"m","e">>, <<"h","i","m">>, <<"h","e","r">>,
    <<"u","s">>, <<"t","h","e","m">>}

\* the last list comprehension of preprocess_text
KeepWord(word) == word \notin stop_words /\ Len(word) > 2

\* preprocess_text with the stop-word and length filter run on the raw
\* fragments, before lower-casing and stripping
preprocess_text_FilterFirst(text) ==
    LET kept  == SelectSeq(Split(text), KeepWord)
        clean == [i \in DOMAIN kept |-> StripNonLetters(LowerText(kept[i]))]
    IN  SelectSeq(clean, LAMBDA w : w # <<>>)

preprocess_text(text) ==
    LET lowered  == LowerText(text)
        stripped == StripNonLetters(lowered)
        words    == Split(stripped)
    IN  SelectSeq(words, KeepWord)

RECURSIVE Join(_)
\* " ".join(words)
Join(words) ==
    IF words = <<>> THEN <<>>
    ELSE IF Len(words) = 1 THEN Head(words)
    ELSE Head(words) \o <<" ">> \o Join(Tail(words))


RECURSIVE StripLeft(_)
StripLeft(text) ==
    IF text # <<>> /\ Head(text) \in Whitespace THEN StripLeft(Tail(text))
    ELSE text

RECURSIVE StripRight(_)
StripRight(text) ==
    IF text # <<>> /\ text[Len(text)] \in Whitespace
    THEN StripRight(SubSeq(text, 1, Len(text) - 1))
    ELSE text

\* str.strip()
Strip(text) == StripRight(StripLeft(text))

\* The file system and PyPDF2 as process_pdf sees them: whether the path
\* exists, whether PdfReader reads it, and the text of its pages.
\* extract_text_from_pdf returns "" when reading raises.
extract_text_from_pdf(file) ==
    IF file.readable THEN Strip(file.pages) ELSE <<>>

\* os.path.basename on a path kept as the sequence of its components
basename(path) == path[Len(path)]

(***************************************************************************)
(* Term-Frequency Calculator                                               *)
(***************************************************************************)
Range(seq) == {seq[i] : i \in DOMAIN seq}

\* Counter(words)[term]
Count(words, term) == Cardinality({i \in DOMAIN words : words[i] = term})

RECURSIVE KeysAcc(_, _)
KeysAcc(words, acc) ==
    IF words = <<>> THEN acc
    ELSE KeysAcc(Tail(words),
                 IF Head(words) \in Range(acc) THEN acc
                 ELSE Append(acc, Head(words)))

\* the keys of Counter(words) in dict order (order of first occurrence)
Keys(words) == KeysAcc(words, <<>>)

\* calculate_term_frequency dividing by the number of distinct terms
calculate_term_frequency_Distinct(words) ==
    [w \in Range(words) |-> <<Count(words, w), Cardinality(Range(words))>>]

\* tf_scores[word] = count / total_words, kept as <<count, total_words>>
calculate_term_frequency(words) ==
    [w \in Range(words) |-> <<Count(words, w), Len(words)>>]

(***************************************************************************)
(* Document Store: the two tables of init_database                         *)
(***************************************************************************)
SetMax(S) == CHOOSE x \in S : \A y \in S : y <= x

TheDb == [documents |-> documents, term_frequency |-> term_frequency,
          seq |-> sqlite_sequence]

\* An upsert that updates the row of an existing filename in place; the
\* cursor's lastrowid is then not set by the statement and stays 0.
InsertOrReplaceDocument_Update(db, filename, content, word_count) ==
    IF \E d \in db.documents : d.filename = filename
    THEN [db |-> [db EXCEPT !.documents =
                    {IF d.filename = filename
                     THEN [d EXCEPT !.content = content,
                                    !.word_count = word_count]
                     ELSE d : d \in db.documents}],
          lastrowid |-> 0]
    ELSE LET newid == db.seq + 1
         IN  [db |-> [db EXCEPT
                        !.documents = @ \cup
                            {[id |-> newid, filename |-> filename,
                              content |-> content, word_count |-> word_count]},
                        !.seq = newid],
              lastrowid |-> newid]

\* INSERT OR REPLACE INTO documents (filename, content, word_count): the row
\* that holds the filename (UNIQUE) is deleted, and a new row is inserted
\* whose id (INTEGER PRIMARY KEY AUTOINCREMENT) is one more than the largest
\* id the table ever held.  cursor.lastrowid is the new id.
InsertOrReplaceDocument(db, filename, content, word_count) ==
    LET newid == SetMax({db.seq} \cup {d.id : d \in db.documents}) + 1
        kept  == {d \in db.documents : d.filename # filename}
    IN  [db |-> [db EXCEPT
                   !.documents = kept \cup
                       {[id |-> newid, filename |-> filename,
                         content |-> content, word_count |-> word_count]},
                   !.seq = newid],
         lastrowid |-> newid]

\* DELETE FROM term_frequency WHERE document_id = ?
DeleteTermFrequency(db, document_id) ==
    [db EXCEPT !.term_frequency =
        {r \in @ : r.document_id # document_id}]

\* UNIQUE(document_id, term)
UniqueViolation(db, document_id, term) ==
    \E r \in db.term_frequency : r.document_id = document_id /\ r.term = term

\* INSERT INTO term_frequency (document_id, term, frequency, tf_score)
InsertTermFrequency(db, document_id, term, frequency, tf_score) ==
    [db EXCEPT !.term_frequency = @ \cup
        {[document_id |-> document_id, term |-> term,
          frequency |-> frequency, tf_score |-> tf_score]}]

RECURSIVE InsertTerms(_, _, _, _, _, _, _)
\* the loop "for term, tf_score in tf_scores.items()" from its i-th key on;
\* the failK-th execute raises sqlite3.Error (0: none is made to raise), and
\* so does an insert that violates UNIQUE(document_id, term)
InsertTerms(db, document_id, keys, words, tf_scores, i, failK) ==
    IF i > Len(keys) THEN [ok |-> TRUE, db |-> db]
    ELSE IF i = failK \/ UniqueViolation(db, document_id, keys[i])
         THEN [ok |-> FALSE, db |-> db]
         ELSE InsertTerms(
                 InsertTermFrequency(db, document_id, keys[i],
                                     Count(words, keys[i]), tf_scores[keys[i]]),
                 document_id, keys, words, tf_scores, i + 1, failK)

\* a connection that keeps what the statements of the failed transaction wrote
Rollback_Keep(committed, inflight) == inflight

\* conn.rollback(): the store is what the last commit left
Rollback(committed, inflight) == committed

\* what a call of a public method leaves behind
Outcome(db, r, exc, st) == [db |-> db, ret |-> r, raised |-> exc, steps |-> st]

\* the except branch of process_pdf
Failed(db, inflight, st) ==
    Outcome(Rollback(db, inflight), FALSE, FALSE, st \o <<"rollback", "close">>)

\* lines 124-157 of process_pdf: connect, then the writes in one transaction.
\* fail names the storage call that raises sqlite3.Error, failK the term
\* insert when fail = "insert_tf".
Persist(db, filename, text, words, tf_scores, fail, failK, st) ==
    IF fail = "connect"
    THEN Outcome(db, FALSE, TRUE, st \o <<"connect">>)
    ELSE
    LET s1 == st \o <<"connect", "insert_doc">>
        up == InsertOrReplaceDocument(db, filename, text, Len(words))
        s2 == s1 \o <<"delete_tf">>
        tx2 == DeleteTermFrequency(up.db, up.lastrowid)
        s3 == s2 \o <<"insert_tf">>
        ins == InsertTerms(tx2, up.lastrowid, Keys(words), words, tf_scores, 1,
                           IF fail = "insert_tf" THEN failK ELSE 0)
        s4 == s3 \o <<"commit">>
    IN  IF fail = "insert_doc" THEN Failed(db, db, s1)
        ELSE IF fail = "delete_tf" THEN Failed(db, up.db, s2)
        ELSE IF ~ins.ok THEN Failed(db, ins.db, s3)
        ELSE IF fail = "commit" THEN Failed(db, ins.db, s4)
        ELSE Outcome(ins.db, TRUE, FALSE, s4 \o <<"close">>)

\* process_pdf without the check "if not words"
process_pdf_NoWordsGate(db, path, file, fail, failK) ==
    IF ~file.exists THEN Outcome(db, FALSE, FALSE, <<"exists">>)
    ELSE
    LET filename == basename(path)
        text == extract_text_from_pdf(file)
        words == preprocess_text(text)
    IN  IF text = <<>>
        THEN Outcome(db, FALSE, FALSE, <<"exists", "extract">>)
        ELSE Persist(db, filename, text, words, calculate_term_frequency(words),
                     fail, failK, <<"exists", "extract", "tokenize", "tf">>)

process_pdf(db, path, file, fail, failK) ==
    IF ~file.exists THEN Outcome(db, FALSE, FALSE, <<"exists">>)
    ELSE
    LET filename == basename(path)
        text == extract_text_from_pdf(file)
        words == preprocess_text(text)
    IN  IF text = <<>>
        THEN Outcome(db, FALSE, FALSE, <<"exists", "extract">>)
        ELSE IF words = <<>>
        THEN Outcome(db, FALSE, FALSE, <<"exists", "extract", "tokenize">>)
        ELSE Persist(db, filename, text, words, calculate_term_frequency(words),
                     fail, failK, <<"exists", "extract", "tokenize", "tf">>)

(***************************************************************************)
(* Corpus Index: calculate_idf                                             *)
(***************************************************************************)
\* 1000000 * ln(k) for k = 1 .. 16, rounded to the nearest integer
LnMicro == <<0, 693147, 1098612, 1386294, 1609438, 1791759, 1945910, 2079442,
             2197225, 2302585, 2397895, 2484907, 2564949, 2639057, 2708050,
             2772589>>

\* math.log(total_docs / doc_freq) in micro-units
Log(total_docs, doc_freq) == LnMicro[total_docs] - LnMicro[doc_freq]

\* SELECT COUNT(*) FROM documents
TotalDocs(db) == Cardinality(db.documents)

\* SELECT term, COUNT(DISTINCT document_id) FROM term_frequency GROUP BY term
DocFreq(db, term) ==
    Cardinality({r.document_id : r \in {x \in db.term_frequency : x.term = term}})

\* The entry of a term keeps the two counts next to the weight computed
\* from them.
IdfScores(db) ==
    IF TotalDocs(db) = 0
    THEN [t \in {} |-> 0]
    ELSE [t \in {r.term : r \in db.term_frequency} |->
            [total_docs |-> TotalDocs(db), doc_freq |-> DocFreq(db, t),
             weight |-> Log(TotalDocs(db), DocFreq(db, t))]]

\* calculate_idf has no exception handler: a storage call that raises ends it
calculate_idf(db, fail) ==
    IF fail = "connect" THEN Outcome(db, <<>>, TRUE, <<"connect">>)
    ELSE IF fail = "count" THEN Outcome(db, <<>>, TRUE, <<"connect", "count">>)
    ELSE IF TotalDocs(db) = 0
    THEN Outcome(db, IdfScores(db), FALSE, <<"connect", "count">>)
    ELSE IF fail = "group"
    THEN Outcome(db, <<>>, TRUE, <<"connect", "count", "group">>)
    ELSE Outcome(db, IdfScores(db), FALSE,
                 <<"connect", "count", "group", "close">>)

(***************************************************************************)
(* Ranker: search                                                          *)
(***************************************************************************)
RECURSIVE SortBy(_, _)
\* the elements of the finite set S as a sequence ascending in key[x]
SortBy(S, key) ==
    IF S = {} THEN <<>>
    ELSE LET m == CHOOSE x \in S : \A y \in S : key[y] >= key[x]
         IN  <<m>> \o SortBy(S \ {m}, key)

\* Rank of a filename in alphabetical order; the filenames of the model are
\* "a.pdf" < "b.pdf" < "c.pdf".
FileRank(filename) ==
    CASE filename = "a.pdf" -> 1
      [] filename = "b.pdf" -> 2
      [] OTHER -> 3

\* SELECT id, filename FROM documents, which has no ORDER BY: SQLite scans
\* the table in rowid order or the index of UNIQUE(filename) in filename order
Enumerate(db, order) ==
    IF order = "rowid"
    THEN SortBy(db.documents, [d \in db.documents |-> d.id])
    ELSE SortBy(db.documents, [d \in db.documents |-> FileRank(d.filename)])

\* SELECT tf_score FROM term_frequency WHERE document_id = ? AND term = ?
\* followed by fetchone(): the set holding the row found, or the empty set
Lookup(db, doc_id, term) ==
    LET rows == {r \in db.term_frequency :
                    r.document_id = doc_id /\ r.term = term}
    IN  IF rows = {} THEN {} ELSE {CHOOSE r \in rows : TRUE}

\* a score is a fraction <<numerator, denominator>> of micro-units
ScoreLess(x, y) == x[1] * y[2] < y[1] * x[2]
ScoreEq(x, y) == x[1] * y[2] = y[1] * x[2]
ScorePositive(x) == x[1] > 0

\* score += tf_score * idf_score
AddTfIdf(score, tf_score, weight) ==
    <<score[1] * tf_score[2] + tf_score[1] * weight * score[2],
      score[2] * tf_score[2]>>

RECURSIVE DocScore(_, _, _, _, _, _)
\* the loop "for term in query_words" for one document, from the i-th term
DocScore(db, idf, doc_id, query_words, i, score) ==
    IF i > Len(query_words) THEN score
    ELSE LET term == query_words[i]
             hit  == Lookup(db, doc_id, term)
         IN  DocScore(db, idf, doc_id, query_words, i + 1,
                      IF hit # {} /\ term \in DOMAIN idf
                      THEN AddTfIdf(score, (CHOOSE r \in hit : TRUE).tf_score,
                                    idf[term].weight)
                      ELSE score)

\* doc_scores.items(): (filename, score) of the documents whose score is
\* > 0, in the order the documents were enumerated
DocScores(db, idf, docs, query_words) ==
    LET all == [i \in DOMAIN docs |->
                  <<docs[i].filename,
                    DocScore(db, idf, docs[i].id, query_words, 1, <<0, 1>>)>>]
    IN  SelectSeq(all, LAMBDA e : ScorePositive(e[2]))

RECURSIVE InsertDesc(_, _)
\* e placed behind every element whose score is not less than its own
InsertDesc(sorted, e) ==
    IF sorted = <<>> THEN <<e>>
    ELSE IF ScoreLess(Head(sorted)[2], e[2])
         THEN <<e>> \o sorted
         ELSE <<Head(sorted)>> \o InsertDesc(Tail(sorted), e)

RECURSIVE InsertDescFront(_, _)
\* e placed in front of the elements whose score is equal to its own
InsertDescFront(sorted, e) ==
    IF sorted = <<>> THEN <<e>>
    ELSE IF ~ScoreLess(e[2], Head(sorted)[2])
         THEN <<e>> \o sorted
         ELSE <<Head(sorted)>> \o InsertDescFront(Tail(sorted), e)

RECURSIVE SortedDescAcc(_, _)
SortedDescAcc(items, acc) ==
    IF items = <<>> THEN acc
    ELSE SortedDescAcc(Tail(items), InsertDesc(acc, Head(items)))

RECURSIVE SortedReversedAcc(_, _)
SortedReversedAcc(items, acc) ==
    IF items = <<>> THEN acc
    ELSE SortedReversedAcc(Tail(items), InsertDescFront(acc, Head(items)))

\* an ascending sort that is reversed afterwards: equal scores change places
SortedDesc_Reversed(items) == SortedReversedAcc(items, <<>>)

\* sorted(items, key=lambda x: x[1], reverse=True): descending and stable
SortedDesc(items) == SortedDescAcc(items, <<>>)

\* items[:top_n]
Slice(items, top_n) ==
    IF top_n >= 0
    THEN SubSeq(items, 1, IF top_n < Len(items) THEN top_n ELSE Len(items))
    ELSE SubSeq(items, 1, Len(items) + top_n)

\* search has no exception handler either.  fail names the storage call that
\* raises: one of calculate_idf ("idf_connect", "idf_count", "idf_group"), or
\* "connect", "select_documents", "lookup" of search itself.
search(db, query, top_n, order, fail) ==
    LET query_words == preprocess_text(query)
        idfCall == calculate_idf(db, CASE fail = "idf_connect" -> "connect"
                                       [] fail = "idf_count" -> "count"
                                       [] fail = "idf_group" -> "group"
                                       [] OTHER -> "none")
        s1 == <<"preprocess", "calculate_idf">>
        docs == Enumerate(db, order)
        lookups == Len(docs) * Len(query_words) > 0
    IN  IF query_words = <<>>
        THEN Outcome(db, <<>>, FALSE, <<"preprocess">>)
        ELSE IF idfCall.raised THEN Outcome(db, <<>>, TRUE, s1)
        ELSE IF fail = "connect"
        THEN Outcome(db, <<>>, TRUE, s1 \o <<"connect">>)
        ELSE IF fail = "select_documents"
        THEN Outcome(db, <<>>, TRUE, s1 \o <<"connect", "select_documents">>)
        ELSE IF fail = "lookup" /\ lookups
        THEN Outcome(db, <<>>, TRUE,
                     s1 \o <<"connect", "select_documents", "lookup">>)
        ELSE Outcome(db,
                     Slice(SortedDesc(DocScores(db, idfCall.ret, docs,
                                                query_words)), top_n),
                     FALSE,
                     s1 \o <<"connect", "select_documents">>
                        \o (IF lookups THEN <<"lookup">> ELSE <<>>)
                        \o <<"close", "sort">>)

\* list_documents prints and returns nothing; it has no exception handler
list_documents(db, fail) ==
    IF fail = "connect" THEN Outcome(db, <<>>, TRUE, <<"connect">>)
    ELSE IF fail = "select_documents"
    THEN Outcome(db, <<>>, TRUE, <<"connect", "select_documents">>)
    ELSE Outcome(db, <<>>, FALSE, <<"connect", "select_documents", "close">>)

(***************************************************************************)
(* Inputs                                                                  *)
(***************************************************************************)
cat == <<"c", "a", "t">>
dog == <<"d", "o", "g">>
owl == <<"o", "w", "l">>

\* "in/a.pdf" and "old/a.pdf" have the same basename
Paths == {<<"in", "a.pdf">>, <<"old", "a.pdf">>, <<"in", "b.pdf">>,
          <<"in", "c.pdf">>}

\* page texts as PyPDF2 returns them, before strip()
PageTexts == {
    cat \o <<" ">> \o dog,                               \* "cat dog"
    <<"C">> \o Tail(cat) \o <<" ">> \o cat \o <<" ">> \o owl \o <<".">>,
                                                         \* "Cat cat owl."
    dog \o <<"\n">>,                                     \* "dog\n"
    <<"t", "h", "e", " ", "4", "2">>,                    \* "the 42"
    <<" ", "\n">>}                                       \* " \n"

Files ==
    {[exists |-> FALSE, readable |-> FALSE, pages |-> <<>>],
     [exists |-> TRUE, readable |-> FALSE, pages |-> <<>>]}
    \cup {[exists |-> TRUE, readable |-> TRUE, pages |-> t] : t \in PageTexts}

Queries == {
    cat, dog, owl,
    cat \o <<" ">> \o dog,                               \* "cat dog"
    <<"D">> \o Tail(dog) \o <<" ">> \o owl \o <<",", " ">> \o owl,
                                                         \* "Dog owl, owl"
    <<"t", "h", "e">>}                                   \* "the"

PdfFails == {"none", "connect", "insert_doc", "delete_tf", "insert_tf", "commit"}
IdfFails == {"none", "connect", "count", "group"}
SearchFails == {"none", "idf_connect", "idf_count", "idf_group", "connect",
                "select_documents", "lookup"}
ListFails == {"none", "connect", "select_documents"}
Orders == {"rowid", "filename"}

NoArgs == [path |-> <<>>, file |-> [exists |-> FALSE, readable |-> FALSE,
                                     pages |-> <<>>],
           query |-> <<>>, top_n |-> 0, order |-> "rowid",
           fail |-> "none", failK |-> 0]

\* the pieces the tokenizer harness builds its input texts from
TokChunks == {<<"t">>, <<"h">>, <<"e">>, <<"T">>, <<"2">>, <<" ">>, owl}

RECURSIVE Flatten(_)
Flatten(chunks) ==
    IF chunks = <<>> THEN <<>> ELSE Head(chunks) \o Flatten(Tail(chunks))

TokTexts ==
    UNION {{Flatten(c) : c \in [1..n -> TokChunks]} : n \in 0..MaxLen}

(***************************************************************************)
(* The analyzer: one action per public method                              *)
(***************************************************************************)
Init ==
    /\ documents = {}
    /\ term_frequency = {}
    /\ sqlite_sequence = 0
    /\ op = "none"
    /\ args = NoArgs
    /\ ret = FALSE
    /\ raised = FALSE
    /\ steps = <<>>
    /\ tokIn = <<>>
    /\ tokOut = <<>>
    /\ tokAgain = <<>>
    /\ tokPc = "idle"

Finish(name, a, r) ==
    /\ documents' = r.db.documents
    /\ term_frequency' = r.db.term_frequency
    /\ sqlite_sequence' = r.db.seq
    /\ op' = name
    /\ args' = a
    /\ ret' = r.ret
    /\ raised' = r.raised
    /\ steps' = r.steps
    /\ UNCHANGED tokVars

\* A storage failure is injected only where the call reaches a storage
\* step; failK is the index of the failing term insert.
ProcessPdf ==
    /\ op = "none"
    /\ \E path \in Paths, file \in Files, fail \in PdfFails :
        \E nterms \in {Cardinality(Range(preprocess_text(
                                             extract_text_from_pdf(file))))} :
        \E failK \in 0..nterms :
        \E r \in {process_pdf(TheDb, path, file, fail, failK)} :
            /\ r.db.seq <= MaxSeq
            /\ fail # "none" => "connect" \in Range(r.steps)
            /\ IF fail = "insert_tf" THEN failK \in 1..nterms ELSE failK = 0
            /\ Finish("process_pdf",
                      [NoArgs EXCEPT !.path = path, !.file = file,
                                     !.fail = fail, !.failK = failK], r)

\* Inputs the call never reads are left at their defaults.
Search ==
    /\ op = "none"
    /\ \E query \in Queries, top_n \in (-1)..MaxTopN, order \in Orders,
       fail \in SearchFails :
        \E r \in {search(TheDb, query, top_n, order, fail)} :
        LET sorted == "sort" \in Range(r.steps)
        IN  /\ fail # "none" => r.raised
            /\ ~sorted => top_n = 0
            /\ (~sorted \/ Cardinality(documents) < 2) => order = "rowid"
            /\ Finish("search",
                      [NoArgs EXCEPT !.query = query, !.top_n = top_n,
                                     !.order = order, !.fail = fail], r)

CalculateIdf ==
    /\ op = "none"
    /\ \E fail \in IdfFails :
        \E r \in {calculate_idf(TheDb, fail)} :
            /\ fail # "none" => r.raised
            /\ Finish("calculate_idf", [NoArgs EXCEPT !.fail = fail], r)

ListDocuments ==
    /\ op = "none"
    /\ \E fail \in ListFails :
        Finish("list_documents", [NoArgs EXCEPT !.fail = fail],
               list_documents(TheDb, fail))

\* The caller takes the outcome and is back at the menu of main (or, after an
\* exception that ended the program, the program is started again on the
\* same database file).
Return ==
    /\ op # "none"
    /\ op' = "none"
    /\ args' = NoArgs
    /\ ret' = FALSE
    /\ raised' = FALSE
    /\ steps' = <<>>
    /\ UNCHANGED <<dbVars, tokVars>>

Next == ProcessPdf \/ Search \/ CalculateIdf \/ ListDocuments \/ Return

Spec == Init /\ [][Next]_vars

(***************************************************************************)
(* The tokenizer on its own: every text of TokTexts, tokenized, joined     *)
(* with single spaces and tokenized again                                  *)
(***************************************************************************)
InitTok ==
    /\ documents = {}
    /\ term_frequency = {}
    /\ sqlite_sequence = 0
    /\ op = "none"
    /\ args = NoArgs
    /\ ret = FALSE
    /\ raised = FALSE
    /\ steps = <<>>
    /\ tokIn \in TokTexts
    /\ tokOut = <<>>
    /\ tokAgain = <<>>
    /\ tokPc = "start"

Tokenize ==
    /\ tokPc = "start"
    /\ tokOut' = preprocess_text(tokIn)
    /\ tokPc' = "tokenized"
    /\ UNCHANGED <<dbVars, callVars, tokIn, tokAgain>>

Retokenize ==
    /\ tokPc = "tokenized"
    /\ tokAgain' = preprocess_text(Join(tokOut))
    /\ tokPc' = "done"
    /\ UNCHANGED <<dbVars, callVars, tokIn, tokOut>>

NextTok == Tokenize \/ Retokenize

SpecTok == InitTok /\ [][NextTok]_vars

(***************************************************************************)
(* Vocabulary of the properties                                            *)
(***************************************************************************)
\* the token sequence of a stored document
Tokens(d) == preprocess_text(d.content)

\* the term entries that carry the id of document d
EntriesOf(d) == {r \in term_frequency : r.document_id = d.id}

\* the stored documents whose text contains term t
Holders(t) == {d \in documents : t \in Range(Tokens(d))}

\* the term entries whose document_id is the id of no stored document
Orphans == {r \in term_frequency : \A d \in documents : d.id # r.document_id}

RetFilenames == {ret[i][1] : i \in DOMAIN ret}

WriteFails == {"insert_doc", "delete_tf", "insert_tf", "commit"}

RECURSIVE SumFrequency(_)
SumFrequency(rows) ==
    IF rows = {} THEN 0
    ELSE LET r == CHOOSE x \in rows : TRUE
         IN  r.frequency + SumFrequency(rows \ {r})

(***************************************************************************)
(* C1: every row of term_frequency carries the id of a document that is    *)
(* in the documents table; re-ingesting a filename leaves no term entry of *)
(* its prior version behind.                                               *)
(***************************************************************************)
C1_NoOrphanTermEntries == Orphans = {}

(***************************************************************************)
(* C2: when a storage call of the write phase of process_pdf raises (the   *)
(* document insert, the delete, a term insert or the commit), process_pdf  *)
(* returns False and the committed store is what it was before the call.   *)
(***************************************************************************)
C2_FailedWriteRollsBack ==
    [][(op' = "process_pdf" /\ args'.fail \in WriteFails)
       => /\ ret' = FALSE
          /\ ~raised'
          /\ documents' = documents
          /\ term_frequency' = term_frequency
          /\ sqlite_sequence' = sqlite_sequence]_vars

\* the second term insert failed while re-ingesting a stored filename
C2_Witness ==
    /\ op = "process_pdf"
    /\ args.fail = "insert_tf"
    /\ args.failK = 2
    /\ "rollback" \in Range(steps)
    /\ \E d \in documents :
          /\ d.filename = basename(args.path)
          /\ d.content # extract_text_from_pdf(args.file)

(***************************************************************************)
(* C3: search with a single-term query t and top_n at least the number of  *)
(* stored documents returns exactly the stored documents that contain t    *)
(* when t occurs in at least one but not all of them, and nothing when t   *)
(* occurs in all or in none.                                               *)
(***************************************************************************)
C3_SingleTermSearch ==
    (/\ op = "search"
     /\ ~raised
     /\ Len(preprocess_text(args.query)) = 1
     /\ args.top_n >= Cardinality(documents))
    => LET t == preprocess_text(args.query)[1]
       IN  RetFilenames =
             IF Holders(t) # {} /\ Holders(t) # documents
             THEN {d.filename : d \in Holders(t)}
             ELSE {}

(***************************************************************************)
(* C4: calculate_idf returns an entry for exactly the terms that occur in  *)
(* a stored document; the document frequency it divides by is the number   *)
(* of stored documents containing the term, so it never exceeds the number *)
(* of documents, a term in all N documents gets weight 0 and a term in one *)
(* of N gets ln(N); on an empty store the mapping is empty.                *)
(***************************************************************************)
C4_IdfMatchesStore ==
    (op = "calculate_idf" /\ ~raised)
    => /\ DOMAIN ret = UNION {Range(Tokens(d)) : d \in documents}
       /\ \A t \in DOMAIN ret :
            /\ ret[t].total_docs = Cardinality(documents)
            /\ ret[t].doc_freq = Cardinality(Holders(t))
            /\ ret[t].doc_freq <= ret[t].total_docs
            /\ Holders(t) = documents => ret[t].weight = 0
            /\ Cardinality(Holders(t)) = 1
                  => ret[t].weight = LnMicro[Cardinality(documents)]

(***************************************************************************)
(* C5: process_pdf returns False, runs no later step and leaves both       *)
(* tables unchanged when the path does not exist, when extraction yields   *)
(* no text, or when tokenization yields no term; it returns True only      *)
(* after the write transaction of that document has committed.             *)
(***************************************************************************)
C5_HardGates ==
    [][op' = "process_pdf"
       => LET file  == args'.file
              text  == extract_text_from_pdf(file)
              words == preprocess_text(text)
              gate  == IF ~file.exists THEN <<"exists">>
                       ELSE IF text = <<>> THEN <<"exists", "extract">>
                       ELSE IF words = <<>>
                            THEN <<"exists", "extract", "tokenize">>
                            ELSE <<>>
          IN  /\ gate # <<>>
                 => /\ ret' = FALSE
                    /\ ~raised'
                    /\ steps' = gate
                    /\ UNCHANGED dbVars
              /\ ret' = TRUE
                 => /\ gate = <<>>
                    /\ steps'[Len(steps') - 1] = "commit"
                    /\ "rollback" \notin Range(steps')
                    /\ sqlite_sequence' = sqlite_sequence + 1
                    /\ \E d \in documents' :
                          /\ d.id = sqlite_sequence'
                          /\ d.filename = basename(args'.path)
                          /\ d.content = text
                          /\ d.word_count = Len(words)]_vars

\* a text of stop words and digits stopped at the tokenizer gate while the
\* filename is stored
C5_Witness ==
    /\ op = "process_pdf"
    /\ steps = <<"exists", "extract", "tokenize">>
    /\ ret = FALSE
    /\ \E d \in documents : d.filename = basename(args.path)

(***************************************************************************)
(* C6: no storage failure leaves process_pdf, search, calculate_idf or     *)
(* list_documents as an unhandled exception.                               *)
(***************************************************************************)
C6_NoUnhandledFault == ~raised

(***************************************************************************)
(* C7: the term-frequency lookup of search for a stored document and a     *)
(* term that the document's current text does not contain finds no row,    *)
(* however often the filename was ingested before with that term.          *)
(***************************************************************************)
C7_NoStaleTermFrequency ==
    \A d \in documents :
        \A t \in {r.term : r \in term_frequency} :
            t \notin Range(Tokens(d)) => Lookup(TheDb, d.id, t) = {}

\* the only filename of the store was ingested before with a term that its
\* current text lacks, and search looked that term up
C7_Witness ==
    /\ op = "search"
    /\ "lookup" \in Range(steps)
    /\ Cardinality(documents) = 1
    /\ \E d \in documents : \E r \in Orphans :
          /\ r.term \notin Range(Tokens(d))
          /\ r.term \in Range(preprocess_text(args.query))

(***************************************************************************)
(* C8: for top_n >= 0 the result of search is the first min(top_n, k)      *)
(* elements of the k documents of positive score in descending order of    *)
(* score, documents of equal score in the order of enumeration: at most    *)
(* top_n elements, no filename twice, no document left out that scores     *)
(* higher than one returned.                                               *)
(***************************************************************************)
C8_SearchResultOrder ==
    (/\ op = "search"
     /\ ~raised
     /\ args.top_n >= 0
     /\ preprocess_text(args.query) # <<>>)
    => LET docs == Enumerate(TheDb, args.order)
           Sc(i) == DocScore(TheDb, IdfScores(TheDb), docs[i].id,
                             preprocess_text(args.query), 1, <<0, 1>>)
           pos == {i \in DOMAIN docs : ScorePositive(Sc(i))}
           Ix(j) == CHOOSE i \in DOMAIN docs : docs[i].filename = ret[j][1]
           \* document i comes before document i2 in the ranking
           Before(i, i2) == \/ ScoreLess(Sc(i2), Sc(i))
                            \/ ScoreEq(Sc(i), Sc(i2)) /\ i < i2
       IN  /\ Len(ret) = IF args.top_n < Cardinality(pos)
                         THEN args.top_n ELSE Cardinality(pos)
           /\ \A j \in DOMAIN ret :
                /\ \E i \in pos : docs[i].filename = ret[j][1]
                /\ ret[j][2] = Sc(Ix(j))
           /\ \A j, j2 \in DOMAIN ret : j < j2 => Before(Ix(j), Ix(j2))
           /\ \A i \in pos \ {Ix(j) : j \in DOMAIN ret} :
                \A j \in DOMAIN ret : Before(Ix(j), i)

\* three documents score, two are returned, and the one left out ties with
\* the last one returned
C8_Witness ==
    /\ op = "search"
    /\ ~raised
    /\ args.top_n = 2
    /\ Len(ret) = 2
    /\ ScoreLess(ret[2][2], ret[1][2])
    /\ \E d \in documents :
          /\ d.filename \notin RetFilenames
          /\ ScoreEq(DocScore(TheDb, IdfScores(TheDb), d.id,
                              preprocess_text(args.query), 1, <<0, 1>>),
                     ret[2][2])

(***************************************************************************)
(* C9: tokenizing the terms of preprocess_text(s), joined with single      *)
(* spaces, yields the same sequence of terms; every term consists of       *)
(* lower-case ASCII letters, is longer than 2 and is no stop word.         *)
(***************************************************************************)
C9_TokenizerIdempotent ==
    /\ tokPc = "done" => tokAgain = tokOut
    /\ tokPc \in {"tokenized", "done"}
       => \A i \in DOMAIN tokOut :
            /\ Range(tokOut[i]) \subseteq LowerLetters
            /\ Len(tokOut[i]) > 2
            /\ tokOut[i] \notin stop_words

\* two terms came out of a text that the tokenizer had to clean
C9_Witness ==
    /\ tokPc = "done"
    /\ Len(tokOut) = 2
    /\ tokIn # Join(tokOut)

(***************************************************************************)
(* C10: each stored document has word_count >= 1 and at least one term     *)
(* entry, at most one entry per term, and its entries are the TF table of  *)
(* its token sequence: frequency = occurrences of the term (>= 1),         *)
(* tf_score = frequency / word_count, frequencies summing to word_count.   *)
(***************************************************************************)
C10_EntriesAreTfTable ==
    \A d \in documents :
        /\ d.word_count >= 1
        /\ d.word_count = Len(Tokens(d))
        /\ EntriesOf(d) # {}
        /\ \A r1, r2 \in EntriesOf(d) : r1.term = r2.term => r1 = r2
        /\ {r.term : r \in EntriesOf(d)} = Range(Tokens(d))
        /\ \A r \in EntriesOf(d) :
             /\ r.frequency = Count(Tokens(d), r.term)
             /\ r.frequency >= 1
             /\ r.tf_score[2] > 0
             /\ r.tf_score[1] * d.word_count = r.frequency * r.tf_score[2]
        /\ SumFrequency(EntriesOf(d)) = d.word_count

\* a re-ingested document in which a term occurs twice
C10_Witness ==
    /\ Orphans # {}
    /\ \E d \in documents : \E r \in EntriesOf(d) :
          r.frequency = 2 /\ d.word_count = 3

====
